---- MODULE Spec2Model ----
(***************************************************************************)
(* Value-at-Risk calculator (src/var.py): the Streamlit script's run and   *)
(* its core functions calculate_portfolio_returns, historical_var,         *)
(* parametric_var and conditional_var.                                     *)
(*                                                                         *)
(* Numbers.  The program computes in double precision; the model computes  *)
(* the same expressions over exact rationals [num, den] in lowest terms    *)
(* (den > 0).  den = 0 stands for the two non-numbers of the program: NaN  *)
(* (num = 0) and a Python name that has not been assigned yet (num = 1).   *)
(* A square root is not rational, so the value of parametric_var is kept   *)
(* as its exact ingredients (mean, sample variance, z, window); it stands  *)
(* for (mean + z * sqrt(variance)) * sqrt(window).                         *)
(*                                                                         *)
(* Rounding.  A double of the program lies within a few rounding steps of  *)
(* the model's number, far less than the difference between two numbers of *)
(* the model, so rounding can only decide a comparison of two results that *)
(* are equal in exact arithmetic.  The comparison the program's results    *)
(* invite is the tail mean of conditional_var against the percentile it    *)
(* averages below.  Where the values of the tail are tied at the cutoff in *)
(* exact arithmetic, their doubles may be equal or a step apart (the same  *)
(* factors multiplied in another order), the double cutoff lies among      *)
(* them, `<= cutoff` keeps those at or below it, and sum / count rounds.   *)
(* conditional_var therefore yields, next to the exact mean, the side of   *)
(* the double cutoff on which the returned double lies (cvar_side).  The   *)
(* low-order bits that fix the side are not in the model: each side that   *)
(* double arithmetic cannot be shown to exclude is a possible outcome.     *)
(*                                                                         *)
(* st.stop() ends a script run.  Outside a script run it either raises its *)
(* stop exception all the same or returns, depending on the installed      *)
(* Streamlit; for a function called on its own both are possible outcomes. *)
(*                                                                         *)
(* `shown` records, in order, each message and each report the run puts    *)
(* on the page; the currency amounts written into the reports, the drawing *)
(* of the plot and the bytes of the CSV are not part of the state.         *)
(***************************************************************************)
EXTENDS Integers, Sequences, FiniteSets

VARIABLES
    entry,            \* "script": the script runs top to bottom; "call": a core function is called on its own
    pc,               \* position of the run
    tickers,          \* number of comma separated tickers typed (0: the text box is empty)
    weights_input,    \* the weights text, split at ',': a sequence of tokens
    rolling_window,   \* window argument / slider value
    confidence_level, \* confidence argument / selectbox value
    weights,          \* parsed weights (percentages)
    price_data,       \* price table: [ncols, rows], rows a sequence of rows of prices
    returns,          \* daily portfolio return series
    hist_var_pct,     \* historical_var()[0]
    rolling_returns,  \* historical_var()[1]
    para_var_pct,     \* parametric_var()
    cvar_pct,         \* conditional_var(): the exact mean its double stands for
    cvar_side,        \* the double returned against the double cutoff: -1 below, 0 on it, 1 above
    shown,            \* what the run has put on the page, in order
    raised            \* the exception that ended the run or call ("none" if none)

vars == <<entry, pc, tickers, weights_input, rolling_window, confidence_level,
          weights, price_data, returns, hist_var_pct, rolling_returns,
          para_var_pct, cvar_pct, cvar_side, shown, raised>>

----------------------------------------------------------------------------
(* Bounds of the model                                                     *)

MaxCols == 2          \* asset columns / tickers
MaxRows == 6          \* price rows a fetch returns to the script
MaxCallRows == 3      \* price rows of a table passed to a direct call
MaxLen == 4           \* length of a daily return series passed to a direct call
MaxCallWindow == 3    \* window passed to a direct call
MaxSliderPick == 6    \* largest slider position the model picks

(* Program constants                                                       *)

SliderMin == 5
SliderMax == 60
PercentBase == 100

----------------------------------------------------------------------------
(* Exact arithmetic standing for the program's float arithmetic            *)

Abs(x) == IF x < 0 THEN -x ELSE x

RECURSIVE GCD(_, _)
GCD(a, b) == IF b = 0 THEN a ELSE GCD(b, a % b)

LCM(a, b) == (a \div GCD(a, b)) * b

NaN == [num |-> 0, den |-> 0]
Undefined == [num |-> 1, den |-> 0]

IsNumber(x) == x.den > 0

Rat(n, d) ==
    LET s == IF d < 0 THEN -1 ELSE 1
        g == GCD(Abs(n), Abs(d))
    IN  [num |-> (s * n) \div g, den |-> (s * d) \div g]

Zero == Rat(0, 1)
One == Rat(1, 1)

RAdd(a, b) ==
    LET l == LCM(a.den, b.den)
    IN  Rat(a.num * (l \div a.den) + b.num * (l \div b.den), l)

RNeg(a) == [num |-> -a.num, den |-> a.den]

RSub(a, b) == RAdd(a, RNeg(b))

RMul(a, b) ==
    LET g1 == GCD(Abs(a.num), b.den)
        g2 == GCD(Abs(b.num), a.den)
    IN  Rat((a.num \div g1) * (b.num \div g2), (a.den \div g2) * (b.den \div g1))

RDiv(a, b) == RMul(a, Rat(b.den, b.num))

RLe(a, b) ==
    LET l == LCM(a.den, b.den)
    IN  a.num * (l \div a.den) <= b.num * (l \div b.den)

RECURSIVE RSum(_)
RSum(s) == IF s = <<>> THEN Zero ELSE RAdd(Head(s), RSum(Tail(s)))

RECURSIVE RProd(_)
RProd(s) == IF s = <<>> THEN One ELSE RMul(Head(s), RProd(Tail(s)))

----------------------------------------------------------------------------
(* Tables and series                                                       *)

EmptyTable == [ncols |-> 0, rows |-> <<>>]

\* DataFrame.empty: no rows or no columns
IsEmptyTable(t) == t.ncols = 0 \/ Len(t.rows) = 0

\* DataFrame.shape[1]
NCols(t) == t.ncols

\* pct_change dividing by the current price instead of the previous one
pct_change_by_current(t) ==
    [ncols |-> t.ncols,
     rows  |-> [r \in 1..Len(t.rows) |->
                  [i \in 1..t.ncols |->
                      IF r = 1 THEN NaN
                      ELSE RSub(One, RDiv(Rat(t.rows[r-1][i], 1), Rat(t.rows[r][i], 1)))]]]

\* DataFrame.pct_change(): row t becomes price[t] / price[t-1] - 1, the first row NaN
pct_change(t) ==
    [ncols |-> t.ncols,
     rows  |-> [r \in 1..Len(t.rows) |->
                  [i \in 1..t.ncols |->
                      IF r = 1 THEN NaN
                      ELSE RSub(RDiv(Rat(t.rows[r][i], 1), Rat(t.rows[r-1][i], 1)), One)]]]

RowHasNaN(row) == \E i \in 1..Len(row) : ~IsNumber(row[i])

\* DataFrame.dropna(): the rows holding a NaN are removed, the columns stay
dropna_rows(t) == [ncols |-> t.ncols, rows |-> SelectSeq(t.rows, LAMBDA row : ~RowHasNaN(row))]

\* Series.dropna()
dropna(s) == SelectSeq(s, IsNumber)

\* np.array(weights) / 100
ScaleWeights(w) == [i \in 1..Len(w) |-> RDiv(Rat(w[i], 1), Rat(PercentBase, 1))]

\* DataFrame.dot(vector): a shape mismatch raises ValueError, otherwise one
\* weighted sum per row
dot(t, w) ==
    IF Len(w) # t.ncols
    THEN [raised |-> "ValueError", value |-> <<>>]
    ELSE [raised |-> "none",
          value  |-> [r \in 1..Len(t.rows) |->
                        RSum([i \in 1..t.ncols |-> RMul(t.rows[r][i], w[i])])]]

ErrWeightsCount == "error: Number of weights must match number of tickers."

\* calculate_portfolio_returns taking the dot product before checking the lengths
calculate_portfolio_returns_dot_first(p, w) ==
    LET daily_returns == dropna_rows(pct_change(p))
        scaled == ScaleWeights(w)
        d == dot(daily_returns, scaled)
    IN  IF d.raised # "none"
        THEN {[outcome |-> "raise", shown |-> <<>>, raised |-> d.raised, value |-> <<>>]}
        ELSE IF Len(scaled) # NCols(daily_returns)
        THEN {[outcome |-> "stop", shown |-> <<ErrWeightsCount>>, raised |-> "none", value |-> <<>>]}
        ELSE {[outcome |-> "return", shown |-> <<>>, raised |-> "none", value |-> d.value]}

\* st.stop() where it is called: in a script run it ends the run; outside
\* one it ends the call with its stop exception or, in a Streamlit whose
\* st.stop() only files a stop request with the run, it returns
st_stop == IF entry = "script" THEN {"stops"} ELSE {"stops", "returns"}

\* calculate_portfolio_returns(price_data, weights): the ways it can end.
\* The mismatch branch has no return of its own: when st.stop() returns, the
\* function goes on to the dot product.
calculate_portfolio_returns(p, w) ==
    LET daily_returns == dropna_rows(pct_change(p))
        scaled == ScaleWeights(w)
        d == dot(daily_returns, scaled)
        product(reported) ==
            IF d.raised # "none"
            THEN [outcome |-> "raise", shown |-> reported, raised |-> d.raised, value |-> <<>>]
            ELSE [outcome |-> "return", shown |-> reported, raised |-> "none", value |-> d.value]
    IN  IF Len(scaled) # NCols(daily_returns)
        THEN {IF s = "stops"
              THEN [outcome |-> "stop", shown |-> <<ErrWeightsCount>>, raised |-> "none",
                    value |-> <<>>]
              ELSE product(<<ErrWeightsCount>>) : s \in st_stop}
        ELSE {product(<<>>)}

\* a rolling sum in place of the compounding
Compound_as_sum(x) == RSum(x)

\* lambda x: (x + 1).prod() - 1
Compound(x) == RSub(RProd([j \in 1..Len(x) |-> RAdd(x[j], One)]), One)

\* rolling window that needs one value more than `window` before it is full
rolling_apply_late(s, window) ==
    [t \in 1..Len(s) |-> IF t <= window THEN NaN ELSE Compound(SubSeq(s, t - window + 1, t))]

\* Series.rolling(window).apply(lambda ...): NaN until a full window is
\* available, then the lambda of the last `window` values
rolling_apply(s, window) ==
    [t \in 1..Len(s) |-> IF t < window THEN NaN ELSE Compound(SubSeq(s, t - window + 1, t))]

RECURSIVE Insert(_, _)
Insert(x, s) ==
    IF s = <<>> THEN <<x>>
    ELSE IF RLe(x, Head(s)) THEN <<x>> \o s
    ELSE <<Head(s)>> \o Insert(x, Tail(s))

RECURSIVE Sorted(_)
Sorted(s) == IF s = <<>> THEN <<>> ELSE Insert(Head(s), Sorted(Tail(s)))

\* percentile without interpolation: the order statistic below the virtual index
percentile_lower(a, q) ==
    LET N == Len(a)
        s == Sorted(a)
    IN  s[((N - 1) * q) \div PercentBase + 1]

\* np.percentile(a, q), a non-empty, 0 <= q <= 100: the default method
\* (linear): virtual index (N - 1) * q / 100 into the sorted values,
\* interpolating between the two neighbours
percentile(a, q) ==
    LET N == Len(a)
        s == Sorted(a)
        pos == (N - 1) * q
        lo == pos \div PercentBase
        gamma == Rat(pos % PercentBase, PercentBase)
        hi == IF lo + 1 < N THEN lo + 1 ELSE N - 1
    IN  RAdd(s[lo + 1], RMul(RSub(s[hi + 1], s[lo + 1]), gamma))

ErrNotEnough == "error: Not enough data to compute rolling returns"

\* historical_var without the empty check: the percentile of nothing is NaN
historical_var_no_empty_check(r, window, confidence) ==
    LET rr == dropna(rolling_apply(r, window))
    IN  [var_percentile |-> IF rr = <<>> THEN NaN ELSE percentile(rr, PercentBase - confidence),
         rolling_returns |-> rr, shown |-> <<>>]

\* historical_var taking the confidence itself as the percentile
historical_var_upper(r, window, confidence) ==
    LET rr == dropna(rolling_apply(r, window))
    IN  IF rr = <<>>
        THEN [var_percentile |-> Zero, rolling_returns |-> <<>>, shown |-> <<ErrNotEnough>>]
        ELSE [var_percentile |-> percentile(rr, confidence),
              rolling_returns |-> rr, shown |-> <<>>]

\* historical_var(returns, window, confidence)
historical_var(r, window, confidence) ==
    LET rr == dropna(rolling_apply(r, window))
    IN  IF rr = <<>>
        THEN [var_percentile |-> Zero, rolling_returns |-> <<>>, shown |-> <<ErrNotEnough>>]
        ELSE [var_percentile |-> percentile(rr, PercentBase - confidence),
              rolling_returns |-> rr, shown |-> <<>>]

\* Series.mean(): NaN for an empty series
mean(s) == IF s = <<>> THEN NaN ELSE RDiv(RSum(s), Rat(Len(s), 1))

\* Series.std() squared: the sample variance (divisor n - 1), NaN below two values
sample_variance(s) ==
    IF Len(s) < 2 THEN NaN
    ELSE LET m == mean(s)
         IN  RDiv(RSum([i \in 1..Len(s) |-> RMul(RSub(s[i], m), RSub(s[i], m))]),
                  Rat(Len(s) - 1, 1))

\* z_scores = {90: -1.28, 95: -1.65, 99: -2.33}
z_scores == [c \in {90, 95, 99} |->
                IF c = 90 THEN Rat(-128, 100) ELSE IF c = 95 THEN Rat(-165, 100) ELSE Rat(-233, 100)]

NoEstimate == [mean |-> Undefined, variance |-> Undefined, z |-> Undefined, window |-> 0]

\* parametric_var falling back to the 95% quantile for a key the table lacks
parametric_var_default(r, window, confidence) ==
    [raised |-> "none",
     value  |-> [mean |-> mean(r), variance |-> sample_variance(r),
                 z |-> IF confidence \in DOMAIN z_scores THEN z_scores[confidence]
                       ELSE z_scores[95],
                 window |-> window]]

\* parametric_var(returns, window, confidence): z_scores[confidence] raises
\* KeyError for a key the table lacks
parametric_var(r, window, confidence) ==
    LET mean_return == mean(r)
        variance == sample_variance(r)
    IN  IF confidence \notin DOMAIN z_scores
        THEN [raised |-> "KeyError", value |-> NoEstimate]
        ELSE [raised |-> "none",
              value  |-> [mean |-> mean_return, variance |-> variance,
                          z |-> z_scores[confidence], window |-> window]]

\* the upper tail in place of the lower one
Tail_ge(rr, cutoff) == SelectSeq(rr, LAMBDA x : RLe(cutoff, x))

\* rolling_returns[rolling_returns <= cutoff]
Tail_le(rr, cutoff) == SelectSeq(rr, LAMBDA x : RLe(x, cutoff))

\* The sides of the double cutoff on which the double mean of the tail can
\* lie, for a tail whose exact mean is `m`:
\*  - m below the cutoff: the double is below it as well;
\*  - a series of one value: the cutoff and the mean are that value;
\*  - the tail tied at the cutoff, one or two values: the doubles kept by
\*    `<= cutoff` are one or two, and x / 1 and (x + y) / 2 do not exceed the
\*    larger of them, so the mean is on the cutoff or below it;
\*  - the tail tied at the cutoff, three or more values: the accumulated sum
\*    rounds, and the quotient can land on the cutoff or on either side.
mean_side(rr, tail, cutoff) ==
    LET m == mean(tail)
    IN  IF m # cutoff THEN {IF RLe(m, cutoff) THEN -1 ELSE 1}
        ELSE IF Len(rr) = 1 THEN {0}
        ELSE IF Len(tail) <= 2 THEN {-1, 0}
        ELSE {-1, 0, 1}

\* conditional_var(rolling_returns, confidence): the results it can return,
\* each the exact mean of the tail and the side of the cutoff its double is on
conditional_var(rr, confidence) ==
    IF rr = <<>> THEN {[value |-> Zero, side |-> 0]}
    ELSE LET cutoff == percentile(rr, PercentBase - confidence)
             tail == Tail_le(rr, cutoff)
         IN  {[value |-> mean(tail), side |-> d] : d \in mean_side(rr, tail, cutoff)}

----------------------------------------------------------------------------
(* Inputs                                                                  *)

\* st.selectbox("Confidence Level", [90, 95, 99])
ConfidenceLevels == {90, 95, 99}

\* st.slider("Rolling Window (in days)", min_value=5, max_value=60, ...)
SliderPicks == {w \in SliderMin..SliderMax : w <= MaxSliderPick}

\* one token of weights_input.split(','): text float() accepts, with its
\* value, or text it rejects
Num(n) == [ok |-> TRUE, val |-> n]
Bad == [ok |-> FALSE, val |-> 0]

WeightTexts ==
    { <<>>,
      <<Num(100)>>, <<Num(90)>>, <<Bad>>,
      <<Num(50), Num(50)>>, <<Num(100), Num(0)>>, <<Num(50), Num(30)>>, <<Num(50), Bad>>,
      <<Num(25), Num(25), Num(50)>>, <<Num(50), Num(50), Num(50)>> }

\* rows of the tables a fetch hands to the script
FetchRows(n) == { [i \in 1..n |-> IF i % 2 = 1 THEN 1 ELSE 2],
                  [i \in 1..n |-> IF i % 2 = 1 THEN 2 ELSE 1] }

RECURSIVE SeqsUpTo(_, _)
SeqsUpTo(S, n) ==
    IF n = 0 THEN {<<>>}
    ELSE LET shorter == SeqsUpTo(S, n - 1)
         IN  shorter \cup {Append(s, x) : s \in {t \in shorter : Len(t) = n - 1}, x \in S}

FetchTables(n) ==
    {[ncols |-> n, rows |-> rs] : rs \in SeqsUpTo(FetchRows(n), MaxRows) \ {<<>>}}

\* arguments of the direct calls
CallPrices == {1, 2}
CallTables ==
    UNION {{[ncols |-> n, rows |-> rs] :
               rs \in SeqsUpTo([1..n -> CallPrices], MaxCallRows) \ {<<>>}} : n \in 1..MaxCols}
CallWeights ==
    { <<100>>, <<40>>, <<60, 40>>, <<50, 50>>, <<150, -50>>, <<30, 30>>, <<20, 30, 50>> }

ReturnValues == {Rat(-1, 2), Rat(-1, 10), Zero, Rat(1, 4)}
CallSeries == SeqsUpTo(ReturnValues, MaxLen)

\* the two-point rolling series of the worked scenario, to five decimals
ScenarioSeries == <<Rat(2022, 100000), Rat(2427, 100000)>>

\* three equal daily returns of -0.35: at window 1 the rolling series is
\* three times the double -0.35, whose sum / 3 is -0.3499999999999999
TiedSeries == <<Rat(-35, 100), Rat(-35, 100), Rat(-35, 100)>>

CallSeriesWindows ==
    (CallSeries \X (1..MaxCallWindow)) \cup {<<ScenarioSeries, 1>>, <<TiedSeries, 1>>}

ConfidenceArgs == ConfidenceLevels \cup {0, 50, 100}

----------------------------------------------------------------------------
(* The script, top to bottom                                               *)

NoResults ==
    /\ weights = <<>>
    /\ price_data = EmptyTable
    /\ returns = <<>>
    /\ hist_var_pct = Undefined
    /\ rolling_returns = <<>>
    /\ para_var_pct = NoEstimate
    /\ cvar_pct = Undefined
    /\ cvar_side = 0
    /\ shown = <<>>
    /\ raised = "none"

InitScript ==
    /\ entry = "script"
    /\ pc = "start"
    /\ tickers \in 0..MaxCols
    /\ weights_input \in WeightTexts
    /\ rolling_window \in SliderPicks
    /\ confidence_level \in ConfidenceLevels
    /\ NoResults

InitCall ==
    /\ entry = "call"
    /\ pc = "call"
    /\ tickers = 0
    /\ weights_input = <<>>
    /\ rolling_window = 0
    /\ confidence_level = 0
    /\ NoResults

Init == InitScript \/ InitCall

inputs == <<entry, tickers, weights_input>>
widgets == <<rolling_window, confidence_level>>

\* if tickers and weights_input and start_date and end_date: (the two dates
\* always hold a date)
Start ==
    /\ entry = "script" /\ pc = "start"
    /\ pc' = IF tickers > 0 /\ weights_input # <<>> THEN "parse" ELSE "done"
    /\ UNCHANGED <<inputs, widgets, weights, price_data, returns, hist_var_pct,
                   rolling_returns, para_var_pct, cvar_pct, cvar_side, shown, raised>>

ErrWeightsSum == "error: Weights must sum to 100."
ErrWeightsFormat == "error: Invalid weights format."

\* sum(weights)
RECURSIVE Sum(_)
Sum(s) == IF s = <<>> THEN 0 ELSE Head(s) + Sum(Tail(s))

\* the try block reporting a wrong sum without stopping the run
ParseWeights_sum_not_stopping ==
    /\ entry = "script" /\ pc = "parse"
    /\ LET parsed == [i \in 1..Len(weights_input) |-> weights_input[i].val]
       IN  IF \E i \in 1..Len(weights_input) : ~weights_input[i].ok
           THEN /\ shown' = shown \o <<ErrWeightsFormat>>
                /\ pc' = "stopped"
                /\ UNCHANGED weights
           ELSE /\ weights' = parsed
                /\ shown' = IF Sum(parsed) # PercentBase THEN shown \o <<ErrWeightsSum>> ELSE shown
                /\ pc' = "fetch"
    /\ UNCHANGED <<entry, tickers, weights_input, rolling_window, confidence_level,
                   price_data, returns, hist_var_pct,
                   rolling_returns, para_var_pct, cvar_pct, cvar_side, raised>>

\* the try block: float() of a rejected token raises, and the bare except
\* reports the format error and stops the run.  st.stop() after the sum
\* check ends the run by an exception raised inside the try block, which the
\* bare except catches too: where st.stop() raises it itself, the handler's
\* st.error reports the format error as well before the second st.stop();
\* where st.stop() files a stop request that every later st.* call honours
\* before it shows anything, the handler's st.error ends the run and the sum
\* error stays the only message.  Which of the two happens is the installed
\* Streamlit's choice.
ParseWeights ==
    /\ entry = "script" /\ pc = "parse"
    /\ LET parsed == [i \in 1..Len(weights_input) |-> weights_input[i].val]
       IN  IF \E i \in 1..Len(weights_input) : ~weights_input[i].ok
           THEN /\ shown' = shown \o <<ErrWeightsFormat>>
                /\ pc' = "stopped"
                /\ UNCHANGED weights
           ELSE IF Sum(parsed) # PercentBase
           THEN /\ weights' = parsed
                /\ \E reported \in {<<ErrWeightsSum>>, <<ErrWeightsSum, ErrWeightsFormat>>} :
                      shown' = shown \o reported
                /\ pc' = "stopped"
           ELSE /\ weights' = parsed
                /\ shown' = shown
                /\ pc' = "fetch"
    /\ UNCHANGED <<inputs, widgets, price_data, returns, hist_var_pct,
                   rolling_returns, para_var_pct, cvar_pct, cvar_side, raised>>

WarnNoData == "warning: No data returned."
WarnUsingClose == "warning: 'Adj Close' not found. Using 'Close' instead."
ErrNoClose == "error: Neither 'Adj Close' nor 'Close' found."

\* price_data = fetch_data(tickers, start_date, end_date): what the download
\* holds is the market-data service's choice
Fetch ==
    /\ entry = "script" /\ pc = "fetch"
    /\ \E found \in {"nothing", "Adj Close", "Close", "neither"} :
         \E t \in FetchTables(tickers) :
            /\ price_data' = IF found \in {"Adj Close", "Close"} THEN t ELSE EmptyTable
            /\ shown' = shown \o (CASE found = "nothing" -> <<WarnNoData>>
                                    [] found = "Adj Close" -> <<>>
                                    [] found = "Close" -> <<WarnUsingClose>>
                                    [] found = "neither" -> <<ErrNoClose>>)
    /\ pc' = "fetched"
    /\ UNCHANGED <<inputs, widgets, weights, returns, hist_var_pct,
                   rolling_returns, para_var_pct, cvar_pct, cvar_side, raised>>

MsgFetched == "success: Data fetched successfully"
MsgTail == "dataframe: price_data.tail()"
MsgPoints == "info: Available data points"
MsgNoFetch == "warning: No data fetched."

\* if not price_data.empty: ... returns = calculate_portfolio_returns(...)
\* else: st.warning(...)
Aggregate ==
    /\ entry = "script" /\ pc = "fetched"
    /\ IF IsEmptyTable(price_data)
       THEN /\ shown' = shown \o <<MsgNoFetch>>
            /\ pc' = "done"
            /\ UNCHANGED <<returns, raised>>
       ELSE \E r \in calculate_portfolio_returns(price_data, weights) :
                /\ shown' = shown \o <<MsgFetched, MsgTail, MsgPoints>> \o r.shown
                /\ returns' = r.value
                /\ raised' = r.raised
                /\ pc' = CASE r.outcome = "stop" -> "stopped"
                           [] r.outcome = "raise" -> "raised"
                           [] r.outcome = "return" -> "hist"
    /\ UNCHANGED <<inputs, widgets, weights, price_data, hist_var_pct,
                   rolling_returns, para_var_pct, cvar_pct, cvar_side>>

MsgHist == "Historical VaR Result"
MsgPara == "Parametric VaR Result"
MsgCVaR == "Conditional VaR (CVaR)"
MsgPlot == "Return Distribution Plot"
MsgCsv == "Download Rolling Returns CSV"

\* hist_var_pct, rolling_returns = historical_var(...) and its report
Historical ==
    /\ entry = "script" /\ pc = "hist"
    /\ LET h == historical_var(returns, rolling_window, confidence_level)
       IN  /\ hist_var_pct' = h.var_percentile
           /\ rolling_returns' = h.rolling_returns
           /\ shown' = shown \o h.shown \o <<MsgHist>>
    /\ pc' = "para"
    /\ UNCHANGED <<inputs, widgets, weights, price_data, returns, para_var_pct,
                   cvar_pct, cvar_side, raised>>

\* para_var_pct = parametric_var(...) and its report
Parametric ==
    /\ entry = "script" /\ pc = "para"
    /\ LET p == parametric_var(returns, rolling_window, confidence_level)
       IN  /\ para_var_pct' = p.value
           /\ raised' = p.raised
           /\ shown' = IF p.raised = "none" THEN shown \o <<MsgPara>> ELSE shown
           /\ pc' = IF p.raised = "none" THEN "cvar" ELSE "raised"
    /\ UNCHANGED <<inputs, widgets, weights, price_data, returns, hist_var_pct,
                   rolling_returns, cvar_pct, cvar_side>>

\* cvar_pct = conditional_var(...) and its report
Conditional ==
    /\ entry = "script" /\ pc = "cvar"
    /\ \E result \in conditional_var(rolling_returns, confidence_level) :
          /\ cvar_pct' = result.value
          /\ cvar_side' = result.side
    /\ shown' = shown \o <<MsgCVaR>>
    /\ pc' = "plot"
    /\ UNCHANGED <<inputs, widgets, weights, price_data, returns, hist_var_pct,
                   rolling_returns, para_var_pct, raised>>

\* plot_return_distribution(...)
Plot ==
    /\ entry = "script" /\ pc = "plot"
    /\ shown' = shown \o <<MsgPlot>>
    /\ pc' = "export"
    /\ UNCHANGED <<inputs, widgets, weights, price_data, returns, hist_var_pct,
                   rolling_returns, para_var_pct, cvar_pct, cvar_side, raised>>

\* export_csv(...) and the download button
Export ==
    /\ entry = "script" /\ pc = "export"
    /\ shown' = shown \o <<MsgCsv>>
    /\ pc' = "done"
    /\ UNCHANGED <<inputs, widgets, weights, price_data, returns, hist_var_pct,
                   rolling_returns, para_var_pct, cvar_pct, cvar_side, raised>>

----------------------------------------------------------------------------
(* The core functions called on their own, with any arguments              *)

CallPortfolioReturns ==
    /\ entry = "call" /\ pc = "call"
    /\ \E p \in CallTables, w \in CallWeights :
         \E r \in calculate_portfolio_returns(p, w) :
             /\ price_data' = p
             /\ weights' = w
             /\ returns' = r.value
             /\ shown' = shown \o r.shown
             /\ raised' = r.raised
             /\ pc' = CASE r.outcome = "stop" -> "stopped"
                        [] r.outcome = "raise" -> "raised"
                        [] r.outcome = "return" -> "returned_returns"
    /\ UNCHANGED <<inputs, widgets, hist_var_pct, rolling_returns, para_var_pct, cvar_pct, cvar_side>>

CallHistoricalVar ==
    /\ entry = "call" /\ pc = "call"
    /\ \E rw \in CallSeriesWindows, c \in ConfidenceLevels :
         LET h == historical_var(rw[1], rw[2], c)
         IN  /\ returns' = rw[1]
             /\ rolling_window' = rw[2]
             /\ confidence_level' = c
             /\ hist_var_pct' = h.var_percentile
             /\ rolling_returns' = h.rolling_returns
             /\ shown' = shown \o h.shown
    /\ pc' = "returned_hist"
    /\ UNCHANGED <<inputs, weights, price_data, para_var_pct, cvar_pct, cvar_side, raised>>

\* conditional_var on the series and confidence of the historical_var call
CallConditionalVar ==
    /\ entry = "call" /\ pc = "returned_hist"
    /\ \E result \in conditional_var(rolling_returns, confidence_level) :
          /\ cvar_pct' = result.value
          /\ cvar_side' = result.side
    /\ pc' = "returned_cvar"
    /\ UNCHANGED <<inputs, widgets, weights, price_data, returns, hist_var_pct,
                   rolling_returns, para_var_pct, shown, raised>>

CallParametricVar ==
    /\ entry = "call" /\ pc = "call"
    /\ \E r \in CallSeries, w \in 1..MaxCallWindow, c \in ConfidenceArgs :
         LET p == parametric_var(r, w, c)
         IN  /\ returns' = r
             /\ rolling_window' = w
             /\ confidence_level' = c
             /\ para_var_pct' = p.value
             /\ raised' = p.raised
             /\ pc' = IF p.raised = "none" THEN "returned_para" ELSE "raised"
    /\ UNCHANGED <<inputs, weights, price_data, hist_var_pct, rolling_returns,
                   cvar_pct, cvar_side, shown>>

Next ==
    \/ Start
    \/ ParseWeights
    \/ Fetch
    \/ Aggregate
    \/ Historical
    \/ Parametric
    \/ Conditional
    \/ Plot
    \/ Export
    \/ CallPortfolioReturns
    \/ CallHistoricalVar
    \/ CallConditionalVar
    \/ CallParametricVar

Spec == Init /\ [][Next]_vars

----------------------------------------------------------------------------
(* Which function has acted in a state                                     *)

\* calculate_portfolio_returns has been called on price_data and weights
AggregatorActed == ~IsEmptyTable(price_data) /\ pc # "fetched"

\* historical_var has been called on returns, rolling_window, confidence_level
HistActed == hist_var_pct # Undefined

\* conditional_var has been called on rolling_returns, confidence_level
CvarActed == cvar_pct # Undefined

\* parametric_var has been called on returns, rolling_window, confidence_level
ParaActed == para_var_pct # NoEstimate \/ raised = "KeyError"

Shown(m) == \E i \in 1..Len(shown) : shown[i] = m

NoEstimateShown == ~Shown(MsgHist) /\ ~Shown(MsgPara) /\ ~Shown(MsgCVaR)
                   /\ ~Shown(MsgPlot) /\ ~Shown(MsgCsv)

----------------------------------------------------------------------------
(* Claims                                                                  *)

\* the last thing put on the page is the dimension-mismatch error
MismatchReported == shown # <<>> /\ shown[Len(shown)] = ErrWeightsCount

C2_RollingLength ==
    HistActed =>
        /\ raised = "none"
        /\ IF rolling_window <= Len(returns)
           THEN Len(rolling_returns) = Len(returns) - rolling_window + 1
           ELSE rolling_returns = <<>>

C2_Witness ==
    /\ HistActed /\ rolling_window >= 2 /\ Len(returns) > rolling_window
    /\ Len(rolling_returns) = Len(returns) - rolling_window + 1

\* product of (1 + r[k+1]) ... (1 + r[k+n])
RECURSIVE GrowthProduct(_, _, _)
GrowthProduct(r, k, n) ==
    IF n = 0 THEN One ELSE RMul(GrowthProduct(r, k, n - 1), RAdd(One, r[k + n]))

\* r[k+1] + ... + r[k+n]
RECURSIVE PlainSum(_, _, _)
PlainSum(r, k, n) == IF n = 0 THEN Zero ELSE RAdd(PlainSum(r, k, n - 1), r[k + n])

\* the returns of the window that starts at index k (0-based)
Window(r, k, n) == SubSeq(r, k + 1, k + n)

NonZeroCount(x) == Cardinality({j \in 1..Len(x) : x[j] # Zero})

\* no gain in the window, or no loss; a loss is at most the whole value
OneSided(x) ==
    \/ \A j \in 1..Len(x) : RLe(Zero, x[j])
    \/ \A j \in 1..Len(x) : RLe(Rat(-1, 1), x[j]) /\ RLe(x[j], Zero)

C4_EmptySentinels ==
    /\ (HistActed /\ Len(returns) < rolling_window) =>
          /\ hist_var_pct = Zero
          /\ rolling_returns = <<>>
          /\ raised = "none"
          /\ pc \notin {"stopped", "raised"}
    /\ (CvarActed /\ rolling_returns = <<>>) =>
          /\ cvar_pct = Zero
          /\ raised = "none"
          /\ pc \notin {"stopped", "raised"}
    /\ (entry = "script" /\ HistActed /\ rolling_returns = <<>>) =>
          /\ Shown(MsgHist)
          /\ pc \in {"para", "cvar", "plot", "export", "done"}
          /\ pc \in {"cvar", "plot", "export", "done"} => (ParaActed /\ Shown(MsgPara))
          /\ pc \in {"plot", "export", "done"} => (CvarActed /\ Shown(MsgCVaR))

C4_Witness ==
    /\ entry = "script" /\ pc = "done" /\ HistActed /\ CvarActed
    /\ returns # <<>> /\ Len(returns) < rolling_window
    /\ rolling_returns = <<>> /\ hist_var_pct = Zero /\ cvar_pct = Zero
    /\ Shown(MsgHist) /\ Shown(MsgPara) /\ Shown(MsgCVaR)

\* rolling_returns[rolling_returns <= hist_var_pct]
TailBelowVaR == SelectSeq(rolling_returns, LAMBDA x : RLe(x, hist_var_pct))

\* the double conditional_var returned is at most the double historical_var
\* returned (the same percentile of the same series, conditional_var's cutoff)
CVaRAtMostVaR == cvar_side <= 0

\* C5 as claimed: for a non-empty rolling series and confidence 90, 95 or 99
\* the value conditional_var returns is at most the percentile historical_var
\* returned for the same series and confidence, and some element of the
\* series is at or below that cutoff, so the tail mean is a number.
C5_ReturnedCVaRBelowVaR ==
    (CvarActed /\ HistActed /\ rolling_returns # <<>> /\ confidence_level \in ConfidenceLevels) =>
        /\ \E i \in 1..Len(rolling_returns) : RLe(rolling_returns[i], hist_var_pct)
        /\ IsNumber(cvar_pct)
        /\ CVaRAtMostVaR

\* C5: for a non-empty rolling series and confidence 90, 95 or 99 some
\* element of the series is at or below the cutoff, so the tail mean is a
\* number, and in exact arithmetic it is at most the percentile
\* historical_var returned for the same series and confidence.  The value
\* conditional_var returns is below that percentile whenever the exact mean
\* is, and at most that percentile whenever the tail has one or two
\* elements; it exceeds it only by the rounding of the mean, with three or
\* more tail elements all tied at the cutoff.
C5_CVaRBelowVaR ==
    (CvarActed /\ HistActed /\ rolling_returns # <<>> /\ confidence_level \in ConfidenceLevels) =>
        /\ \E i \in 1..Len(rolling_returns) : RLe(rolling_returns[i], hist_var_pct)
        /\ IsNumber(cvar_pct)
        /\ RLe(cvar_pct, hist_var_pct)
        /\ cvar_side \in {-1, 0, 1}
        /\ cvar_pct # hist_var_pct => cvar_side = -1
        /\ Len(TailBelowVaR) <= 2 => CVaRAtMostVaR
        /\ ~CVaRAtMostVaR =>
              /\ Len(TailBelowVaR) >= 3
              /\ \A i \in 1..Len(TailBelowVaR) : TailBelowVaR[i] = hist_var_pct
              /\ cvar_pct = hist_var_pct

C5_Witness ==
    /\ CvarActed /\ HistActed /\ confidence_level \in ConfidenceLevels
    /\ returns = TiedSeries /\ rolling_window = 1 /\ rolling_returns = TiedSeries
    /\ Len(TailBelowVaR) = 3
    /\ hist_var_pct = Rat(-35, 100) /\ cvar_pct = hist_var_pct
    /\ cvar_side = 1 /\ ~CVaRAtMostVaR

\* C6: for one rolling series (the empty one included) the historical VaR at
\* confidence 99 is at most the one at 95, which is at most the one at 90.
C6_Monotone ==
    HistActed =>
        LET v(c) == historical_var(returns, rolling_window, c).var_percentile
        IN  /\ hist_var_pct = v(confidence_level)
            /\ RLe(v(99), v(95))
            /\ RLe(v(95), v(90))

C6_Witness ==
    /\ HistActed /\ Len(rolling_returns) >= 3
    /\ historical_var(returns, rolling_window, 99).var_percentile
          # historical_var(returns, rolling_window, 90).var_percentile

RECURSIVE Product(_)
Product(s) == IF s = <<>> THEN 1 ELSE Head(s) * Product(Tail(s))

\* sum over the assets i of w[i] * (now[i] - before[i]) / (100 * before[i])
WeightedReturn(before, now, w) ==
    LET D == Product(before)
    IN  Rat(Sum([i \in 1..Len(w) |-> w[i] * (now[i] - before[i]) * (D \div before[i])]),
            100 * D)

\* C7: for m rows of positive prices and n weights, calculate_portfolio_returns
\* returns m - 1 entries, and entry t is the sum over the assets i of
\* (w[i] / 100) * (price[t][i] / price[t-1][i] - 1).
C7_WeightedDailyReturns ==
    (AggregatorActed /\ Len(weights) = price_data.ncols) =>
        /\ Len(returns) = Len(price_data.rows) - 1
        /\ \A t \in 1..(Len(price_data.rows) - 1) :
              returns[t] = WeightedReturn(price_data.rows[t], price_data.rows[t + 1], weights)

C7_Witness ==
    /\ entry = "call" /\ pc = "returned_returns" /\ AggregatorActed
    /\ weights = <<60, 40>> /\ Len(price_data.rows) = 3 /\ Len(returns) = 2
    /\ returns[1] # returns[2] /\ returns[1] # Zero

WeightsParse == \A i \in 1..Len(weights_input) : weights_input[i].ok
WeightsSumTo100 == Sum([i \in 1..Len(weights_input) |-> weights_input[i].val]) = 100

\* C8: in the script, weights that do not parse or do not sum to 100 stop the
\* run before the price fetch and before any core function; a number of
\* weights other than the number of asset columns stops it in
\* calculate_portfolio_returns; a stopped run is over and has produced none
\* of the historical, parametric or conditional results, plot or CSV.
C8_ErrorsHaltBeforeResults ==
    entry = "script" =>
        /\ (pc \notin {"start", "parse", "done", "stopped"} \/ ~IsEmptyTable(price_data)
               \/ Shown(WarnNoData) \/ Shown(ErrNoClose) \/ HistActed \/ ParaActed \/ CvarActed)
              => (WeightsParse /\ WeightsSumTo100)
        /\ (pc \notin {"start", "parse"} /\ tickers > 0 /\ weights_input # <<>>
               /\ ~(WeightsParse /\ WeightsSumTo100))
              => (pc = "stopped" /\ IsEmptyTable(price_data) /\ returns = <<>>)
        /\ (AggregatorActed /\ Len(weights) # price_data.ncols) => pc = "stopped"
        /\ pc = "stopped" =>
              /\ NoEstimateShown
              /\ ~HistActed /\ ~ParaActed /\ ~CvarActed
              /\ ~ENABLED Next
        /\ ~NoEstimateShown =>
              (WeightsParse /\ WeightsSumTo100 /\ Len(weights) = price_data.ncols)

C8_Witness ==
    /\ entry = "script" /\ pc = "stopped"
    /\ WeightsParse /\ WeightsSumTo100
    /\ ~IsEmptyTable(price_data) /\ Len(weights) # price_data.ncols
    /\ Len(price_data.rows) >= 2
    /\ NoEstimateShown

\* (1 - g) * a + g * b with g = f / 100
Interpolate(a, b, f) ==
    RDiv(RAdd(RMul(Rat(100 - f, 1), a), RMul(Rat(f, 1), b)), Rat(100, 1))

\* the (100 - c)-th percentile by linear interpolation between the order
\* statistics around position (N - 1) * (100 - c) / 100
LinearPercentile(rr, c) ==
    LET N == Len(rr)
        s == Sorted(rr)
        i == ((N - 1) * (100 - c)) \div 100
        f == ((N - 1) * (100 - c)) % 100
    IN  IF f = 0 THEN s[i + 1] ELSE Interpolate(s[i + 1], s[i + 2], f)

\* C9: for a non-empty rolling series historical_var returns the (100 - c)-th
\* percentile by linear interpolation between adjacent order statistics, and
\* conditional_var averages the elements at or below that same cutoff; for
\* the scenario's two points (0.02022, 0.02427) at confidence 90 the result
\* is the lower one plus a tenth of the gap, 0.020625.
C9_LinearInterpolation ==
    /\ (HistActed /\ rolling_returns # <<>>) =>
          hist_var_pct = LinearPercentile(rolling_returns, confidence_level)
    /\ (HistActed /\ CvarActed /\ rolling_returns # <<>>) =>
          LET tail == SelectSeq(rolling_returns, LAMBDA x : RLe(x, hist_var_pct))
          IN  /\ tail # <<>>
              /\ RMul(cvar_pct, Rat(Len(tail), 1)) = RSum(tail)
    /\ (HistActed /\ rolling_returns = ScenarioSeries /\ confidence_level = 90) =>
          /\ hist_var_pct = RAdd(ScenarioSeries[1],
                                 RDiv(RSub(ScenarioSeries[2], ScenarioSeries[1]), Rat(10, 1)))
          /\ hist_var_pct = Rat(20625, 1000000)

C9_Witness ==
    /\ HistActed /\ CvarActed
    /\ rolling_returns = ScenarioSeries /\ confidence_level = 90
    /\ hist_var_pct = Rat(20625, 1000000)
    /\ cvar_pct = ScenarioSeries[1]

\* C10: parametric_var raises (KeyError) and gives no estimate for every
\* confidence outside {90, 95, 99}; for 90, 95, 99 it uses z = -1.28, -1.65,
\* -2.33 and does not fail; the script only ever passes 90, 95 or 99, so the
\* failure is never reached there.
C10_UnsupportedConfidence ==
    /\ ParaActed =>
          /\ (confidence_level \notin {90, 95, 99}) <=> (raised = "KeyError")
          /\ raised = "KeyError" => (para_var_pct = NoEstimate /\ pc = "raised")
          /\ confidence_level = 90 => para_var_pct.z = Rat(-128, 100)
          /\ confidence_level = 95 => para_var_pct.z = Rat(-165, 100)
          /\ confidence_level = 99 => para_var_pct.z = Rat(-233, 100)
    /\ entry = "script" => (confidence_level \in {90, 95, 99} /\ raised # "KeyError")

C10_Witness ==
    /\ entry = "call" /\ pc = "raised" /\ raised = "KeyError"
    /\ confidence_level = 50 /\ Len(returns) >= 2
    /\ para_var_pct = NoEstimate

====
